---- MODULE Spec2Model ----
(***************************************************************************)
(* Model of go/libraries/doltcore/sqle/dolt_map_iter.go:                   *)
(*   - KVToSqlRowConverter (tagged-tuple row projector)                    *)
(*   - AutoSizingFWTTransformer (adaptive width-sizing pipeline stage)     *)
(* Go slices are 0-based; a Go index i is position i+1 of a TLA+ sequence. *)
(***************************************************************************)
EXTENDS Integers, Sequences, FiniteSets, TLC

(* ------------------------------ bounds --------------------------------- *)
\* The largest tag value; stands for 0xFFFFFFFFFFFFFFFF (tags are 0..MaxU64).
MaxU64 == 3
\* Longest column descriptor list handed to NewKVToSqlRowConverter.
MaxCols == 2
\* Longest key or value tuple (number of (tag, value) entries).
MaxTupleLen == 2

(* ------------------------- converter: data ----------------------------- *)
Tags == 0..MaxU64
TypeInfos == {"int", "str"}
RawVals == {"1", "x"}
Nil == [nil |-> TRUE]

\* schema.Column, reduced to the fields the converter reads
Column == [Tag : Tags, IsPartOfPK : BOOLEAN, TypeInfo : TypeInfos]

\* TypeInfo.ConvertNomsValueToValue: the "int" converter rejects a raw value
\* that is not a number, the "str" converter accepts every raw value.  The
\* typed value remembers the converter that produced it.
ConvertNomsValueToValue(ti, raw) ==
    IF ti = "int" /\ raw = "x"
    THEN [err |-> TRUE, val |-> Nil]
    ELSE [err |-> FALSE, val |-> [ti |-> ti, raw |-> raw]]

maxU64(x, y) == IF x > y THEN x ELSE y

RECURSIVE getValLocationsFrom(_, _, _, _)
\* the loop of getValLocations from descriptor i (1-based) on; acc = <<fromKey, fromVal, maxValTag>>
getValLocationsFrom(tagToSqlColIdx, cols, i, acc) ==
    IF i > Len(cols) THEN acc
    ELSE LET col == cols[i] IN
         IF col.Tag \in DOMAIN tagToSqlColIdx
         THEN IF col.IsPartOfPK
              THEN getValLocationsFrom(tagToSqlColIdx, cols, i + 1,
                                       <<acc[1] + 1, acc[2], acc[3]>>)
              ELSE getValLocationsFrom(tagToSqlColIdx, cols, i + 1,
                                       <<acc[1], acc[2] + 1, maxU64(acc[3], col.Tag)>>)
         ELSE getValLocationsFrom(tagToSqlColIdx, cols, i + 1, acc)

getValLocations(tagToSqlColIdx, cols) ==
    getValLocationsFrom(tagToSqlColIdx, cols, 1, <<0, 0, 0>>)

NewKVToSqlRowConverter(tagToSqlColIdx, cols, rowSize) ==
    LET loc == getValLocations(tagToSqlColIdx, cols) IN
    [tagToSqlColIdx |-> tagToSqlColIdx,
     cols           |-> cols,
     rowSize        |-> rowSize,
     valsFromKey    |-> loc[1],
     valsFromVal    |-> loc[2],
     maxValTag      |-> loc[3]]

(* ------------------------- converter: scan ----------------------------- *)
\* A types.Value handed to the converter.  A tuple carries its entries in
\* stored order and errAt, the cursor operation that fails on it (0: none;
\* 1: InitForTuple; 2i and 2i+1: the read of the tag and of the value, or the
\* Skip, of entry i).
NullValue == [kind |-> "null"]
NotATuple == [kind |-> "string"]
\* the zero types.Tuple of `var valTup types.Tuple`
ZeroTuple == [kind |-> "tuple", ents |-> << >>, errAt |-> 0]

\* outcome of one processTuple call: the slice as left behind, how many
\* entries had their tag read, how many slots were filled
ScanOut(status, cols, visited, filled) ==
    [status |-> status, cols |-> cols, visited |-> visited, filled |-> filled]

\* the converter used for a matched entry: the descriptor at the destination index
\* (conv.cols[sqlColIdx].TypeInfo)
ConverterFor(conv, tag64, sqlColIdx) == conv.cols[sqlColIdx + 1].TypeInfo

RECURSIVE processLoop(_, _, _, _, _, _, _, _)
\* the for loop of processTuple; i entries have been consumed so far
processLoop(conv, cols, valsToFill, maxTag, tup, filled, tag64, i) ==
    IF ~(filled < valsToFill /\ tag64 < maxTag)
    THEN ScanOut("ok", cols, i, filled)
    ELSE IF tup.errAt = 2 * (i + 1)
    THEN ScanOut("err", cols, i, filled)
    ELSE IF i >= Len(tup.ents)
    THEN ScanOut("ok", cols, i, filled)
    ELSE LET tag == tup.ents[i + 1].tag
             val == tup.ents[i + 1].val
         IN  IF tag > maxTag
             THEN ScanOut("ok", cols, i + 1, filled)
             ELSE IF tup.errAt = 2 * (i + 1) + 1
             THEN ScanOut("err", cols, i + 1, filled)
             ELSE IF tag \notin DOMAIN conv.tagToSqlColIdx
             THEN processLoop(conv, cols, valsToFill, maxTag, tup, filled, tag, i + 1)
             ELSE LET sqlColIdx == conv.tagToSqlColIdx[tag] IN
                  IF sqlColIdx >= Len(conv.cols) \/ sqlColIdx >= Len(cols)
                  THEN ScanOut("panic", cols, i + 1, filled)
                  ELSE LET r == ConvertNomsValueToValue(
                                    ConverterFor(conv, tag, sqlColIdx), val)
                           cols2 == [cols EXCEPT ![sqlColIdx + 1] = r.val]
                       IN  IF r.err
                           THEN ScanOut("converr", cols2, i + 1, filled)
                           ELSE processLoop(conv, cols2, valsToFill, maxTag, tup,
                                            filled + 1, tag, i + 1)

processTuple(conv, cols, valsToFill, maxTag, tup) ==
    IF tup.errAt = 1
    THEN ScanOut("err", cols, 0, 0)
    ELSE processLoop(conv, cols, valsToFill, maxTag, tup, 0, 0, 0)

\* variant: the key scan is given the early-exit tag of the value scan
KeyScanMaxTagOfValues(conv) == conv.maxValTag

\* the maxTag argument of the key scan
KeyScanMaxTag(conv) == MaxU64

\* a sql.Row: the nil slice, or a slice of slots
NilRow == [isNil |-> TRUE, cols |-> << >>]
RowOf(cols) == [isNil |-> FALSE, cols |-> cols]

\* the (row, error) pair a call returns; status "panic" is an index-out-of-range
\* run-time panic.  keyScan and valScan record what the two scans did.
ConvOut(status, row, keyScan, valScan) ==
    [status |-> status, row |-> row, keyScan |-> keyScan, valScan |-> valScan]

NoScan == [status |-> "none", cols |-> << >>, visited |-> 0, filled |-> 0]

\* variant: the slice filled so far is returned together with the error
ErrorReturnPartialRow(status, cols, keyScan, valScan) ==
    ConvOut(IF status = "panic" THEN "panic" ELSE "err", RowOf(cols), keyScan, valScan)

\* what ConvertKVToSqlRow returns after a scan failed
ErrorReturn(status, cols, keyScan, valScan) ==
    ConvOut(IF status = "panic" THEN "panic" ELSE "err", NilRow, keyScan, valScan)

ConvertKVToSqlRow(conv, k, v) ==
    IF k.kind # "tuple"
    THEN ConvOut("err", NilRow, NoScan, NoScan)
    ELSE IF v.kind # "null" /\ v.kind # "tuple"
    THEN ConvOut("err", NilRow, NoScan, NoScan)
    ELSE LET valTup == IF v.kind = "null" THEN ZeroTuple ELSE v
             cols0  == [i \in 1..conv.rowSize |-> Nil]
             keyScan == IF conv.valsFromKey > 0
                        THEN processTuple(conv, cols0, conv.valsFromKey,
                                          KeyScanMaxTag(conv), k)
                        ELSE NoScan
             cols1  == IF conv.valsFromKey > 0 THEN keyScan.cols ELSE cols0
         IN  IF keyScan.status \notin {"none", "ok"}
             THEN ErrorReturn(keyScan.status, cols1, keyScan, NoScan)
             ELSE LET valScan == IF conv.valsFromVal > 0
                                 THEN processTuple(conv, cols1, conv.valsFromVal,
                                                   conv.maxValTag, valTup)
                                 ELSE NoScan
                      cols2 == IF conv.valsFromVal > 0 THEN valScan.cols ELSE cols1
                  IN  IF valScan.status \notin {"none", "ok"}
                      THEN ErrorReturn(valScan.status, cols2, keyScan, valScan)
                      ELSE ConvOut("ok", RowOf(cols2), keyScan, valScan)

(* ------------------------- converter: inputs --------------------------- *)
Injective(f) == \A a, b \in DOMAIN f : f[a] = f[b] => a = b

ColLists ==
    {cs \in UNION {[1..n -> Column] : n \in 1..MaxCols} :
        \A i, j \in DOMAIN cs : cs[i].Tag = cs[j].Tag => i = j}

ColTags(cols) == {cols[i].Tag : i \in DOMAIN cols}
PKTags(cols) == {cols[i].Tag : i \in {j \in DOMAIN cols : cols[j].IsPartOfPK}}
NonPKTags(cols) == ColTags(cols) \ PKTags(cols)

\* requested tag -> destination index, one destination per requested column
Mappings(cols, rowSize) ==
    {m \in UNION {[S -> 0..(rowSize - 1)] : S \in SUBSET ColTags(cols)} : Injective(m)}

TagSeqs(S) == {s \in UNION {[1..n -> S] : n \in 0..MaxTupleLen} : Injective(s)}
Ascending(s) == \A i, j \in DOMAIN s : i < j => s[i] < s[j]

\* tuples with the tags ts in this order; an entry the mapping does not request
\* is skipped undecoded, so its raw value is held fixed
TuplesOf(ts, m, errs) ==
    {[kind |-> "tuple",
      ents |-> [i \in DOMAIN ts |-> [tag |-> ts[i], val |-> rv[i]]],
      errAt |-> e] :
        rv \in {r \in [DOMAIN ts -> RawVals] :
                   \A i \in DOMAIN ts : ts[i] \notin DOMAIN m => r[i] = "1"},
        e \in errs}

\* 0 (no failure) and every cursor operation a scan of ts can make
CursorOps(ts) == 0..(2 * Len(ts) + 2)
WellFormed(t) == t.kind = "tuple" /\ t.errAt = 0

(* ------------------------ converter: cursor pool ----------------------- *)
\* Goroutines that call ConvertKVToSqlRow on one converter at the same time.
MaxCallers == 2
\* Cursors types.TupleItrPool ever creates.
MaxCursors == 2

Procs == 1..MaxCallers
Cursors == 1..MaxCursors
NoCursor == 0
\* a *types.TupleIterator that was never initialised
FreshCursor == [kind |-> "fresh"]

\* one ConvertKVToSqlRow call: its arguments, its position, the cursor it
\* holds, the slice being filled, what its scans did and what it returned
IdleCall ==
    [pc |-> "idle", k |-> NullValue, v |-> NullValue, cur |-> NoCursor,
     cols |-> << >>, keyScan |-> NoScan, result |-> ConvOut("none", NilRow, NoScan, NoScan)]

\* variant: the cursor is not put back
PoolAfterPutSkipped(free, c) == free

\* sync.Pool.Get: the cursor handed out is no longer in the pool
PoolAfterGet(free, c) == free \ {c}

\* sync.Pool.Put
PoolAfterPut(free, c) == free \cup {c}

\* types.TupleIterator.InitForTuple: the cursor is set to the start of tup
InitForTuple(tup) == tup

\* the converters the concurrent calls share: both columns requested, and
\* the key column requested at a destination index past the descriptors
PoolConvs ==
    LET cols == <<[Tag |-> 1, IsPartOfPK |-> TRUE, TypeInfo |-> "int"],
                  [Tag |-> 2, IsPartOfPK |-> FALSE, TypeInfo |-> "int"]>>
    IN  {NewKVToSqlRowConverter((1 :> 0) @@ (2 :> 1), cols, 2),
         NewKVToSqlRowConverter((1 :> 2), cols, 3)}

\* the (key, value) pairs the concurrent calls are made with: a pair that
\* converts, a value the converter rejects, a value the cursor fails on, and
\* a key that is no tuple
PoolInputs ==
    LET key(raw, e) == [kind |-> "tuple", ents |-> <<[tag |-> 1, val |-> raw]>>, errAt |-> e]
        val(raw, e) == [kind |-> "tuple", ents |-> <<[tag |-> 2, val |-> raw]>>, errAt |-> e]
    IN  {<<key("1", 0), val("1", 0)>>,
         <<key("1", 0), val("x", 0)>>,
         <<key("1", 0), val("1", 3)>>,
         <<NotATuple, val("1", 0)>>}

(* ------------------------ row source iterator -------------------------- *)
\* Longest sequence of pairs the map iterator holds.
MaxPairs == 2
\* Next calls made after the map iterator has run out.
MaxEofCalls == 2
\* Close calls made on one iterator.
MaxCloses == 2

\* the nil interface value
NilValue == [kind |-> "nil"]

\* what types.MapIterator.Next gives: a pair, or a failure of the source
SourceItems ==
    LET key(raw) == [kind |-> "tuple", ents |-> <<[tag |-> 1, val |-> raw]>>, errAt |-> 0]
        val(raw) == [kind |-> "tuple", ents |-> <<[tag |-> 2, val |-> raw]>>, errAt |-> 0]
        pair(kk, vv) == [k |-> kk, v |-> vv, err |-> "none"]
    IN  {pair(key("1"), val("1")),
         pair(key("x"), val("1")),
         pair(key("1"), NullValue),
         pair(NotATuple, val("1")),
         [k |-> NilValue, v |-> NilValue, err |-> "source failed"]}

\* mapItr.Next(ctx): the next item, or nil key and value once the items are used up
MapIteratorNext(items, pos) ==
    IF pos < Len(items)
    THEN items[pos + 1]
    ELSE [k |-> NilValue, v |-> NilValue, err |-> "none"]

\* variant: the nil key of an exhausted map iterator is passed on as a pair
GetFuncWithoutEOF(got) == got

\* the function GetGetFuncForMapIter returns, applied to what mapItr.Next gave
GetFunc(got) ==
    IF got.err # "none"
    THEN [k |-> NilValue, v |-> NilValue, err |-> got.err]
    ELSE IF got.k.kind = "nil"
    THEN [k |-> NilValue, v |-> NilValue, err |-> "EOF"]
    ELSE [k |-> got.k, v |-> got.v, err |-> "none"]

\* the (sql.Row, error) of ConvertKVToSqlRow as its caller sees it
RowAndError(out) ==
    [row |-> out.row,
     err |-> IF out.status = "ok" THEN "none"
             ELSE IF out.status = "panic" THEN "panic" ELSE "decode failed"]

\* DoltMapIter.Next, given what dmi.kvGet returned
DoltMapIterNext(cv, got) ==
    IF got.err # "none"
    THEN [row |-> NilRow, err |-> got.err]
    ELSE RowAndError(ConvertKVToSqlRow(cv, got.k, got.v))

\* the closeKVGetter field: nil, or a callback and the error it returns
Closers ==
    {[present |-> FALSE, err |-> "none"],
     [present |-> TRUE, err |-> "none"],
     [present |-> TRUE, err |-> "close failed"]}

\* variant: Close drops the callback's error
DoltMapIterCloseSilent(cl) == "none"

\* DoltMapIter.Close
DoltMapIterClose(cl) == IF cl.present THEN cl.err ELSE "none"

(* --------------------- adaptive stage: data ---------------------------- *)
\* Rows the producer may put on the input queue.
MaxRows == 4
\* Largest configured sample size (numSamples ranges over -1..MaxSamples).
MaxSamples == 2
\* Capacity of the input, output and error queues.
ChanCap == 1
\* Rows in the buffer of a stage that is observed from its replay on.
ReplayLen == 102
\* variant: the replay looks at the stop channel every 200 rows
CheckpointEveryDoubled == 2 * 100

\* flush looks at the stop channel every CheckpointEvery rows
CheckpointEvery == 100

\* tags of the schema the stage examines
SchTags == {1, 2}
\* a types.String is kept as its display width w and its rune count r
\* ("世界": 4 columns, 2 runes; "abc": 3 columns, 3 runes)
StringVals == {[kind |-> "string", w |-> 4, r |-> 2],
               [kind |-> "string", w |-> 3, r |-> 3]}
FieldVals == {NullValue} \cup StringVals
\* the column values of the rows the producer sends
RowVals ==
    {[tag \in SchTags |-> IF tag = 1 THEN [kind |-> "string", w |-> 4, r |-> 2]
                                     ELSE NullValue],
     [tag \in SchTags |-> IF tag = 1 THEN [kind |-> "string", w |-> 3, r |-> 3]
                                     ELSE [kind |-> "string", w |-> 4, r |-> 2]]}
IsNull(val) == val.kind = "null"
\* the rows the producer sends: column values and the formatter's verdict on
\* them (any row may be accepted; a rejected row has both columns set, a row
\* answered with no result row has a null second column)
InputRows ==
    {<<vals, verdict>> \in RowVals \X {"ok", "err", "none"} :
        \/ verdict = "ok"
        \/ verdict = "err" /\ ~IsNull(vals[2])
        \/ verdict = "none" /\ IsNull(vals[2])}
StringWidth(strVal) == strVal.w
NumRunes(strVal) == strVal.r

\* what the fixed-width formatter answers for a row: an error message, one
\* result row, or a result list that does not hold exactly one row
Verdicts == {"ok", "err", "none"}
TransformName == "Auto Sizing Fixed Width Transform"
NoProps == << >>

\* pipeline.RowWithProps; the row carries the formatter's verdict on it
RowWithProps(id, vals, verdict) ==
    [Row |-> [id |-> id, vals |-> vals, verdict |-> verdict], Props |-> NoProps]

\* NewFWTTransformer(NewFWTSchemaWithWidths(sch, printWidths, maxRunes), tooLngBhv)
NewFWTTransformer(printWidths, maxRunes) ==
    [printWidths |-> printWidths, maxRunes |-> maxRunes]

\* FWTTransformer.Transform: (rds, errMsg)
Transform(fwtTr, row, props) ==
    IF row.verdict = "err"
    THEN [rds |-> << >>, errMsg |-> "rejected"]
    ELSE IF row.verdict = "ok"
    THEN [rds |-> <<[RowData |-> [id |-> row.id, widths |-> fwtTr.printWidths],
                     PropertyUpdates |-> NoProps]>>,
          errMsg |-> ""]
    ELSE [rds |-> << >>, errMsg |-> ""]

\* ReadableMap.Set: the properties with the updates laid over them
SetProps(props, updates) ==
    [n \in (DOMAIN props) \cup (DOMAIN updates) |->
        IF n \in DOMAIN updates THEN updates[n] ELSE props[n]]

\* variant: the width of the latest non-null value replaces the learned one
LearnPrintWidthsLatest(printWidths, row) ==
    [tag \in SchTags |->
        IF ~IsNull(row.vals[tag])
        THEN StringWidth(row.vals[tag])
        ELSE printWidths[tag]]

\* the IterSchema callback of handleRow, for the print widths
LearnPrintWidths(printWidths, row) ==
    [tag \in SchTags |->
        IF ~IsNull(row.vals[tag]) /\ StringWidth(row.vals[tag]) > printWidths[tag]
        THEN StringWidth(row.vals[tag])
        ELSE printWidths[tag]]

\* the IterSchema callback of handleRow, for the rune counts
LearnMaxRunes(maxRunes, row) ==
    [tag \in SchTags |->
        IF ~IsNull(row.vals[tag]) /\ NumRunes(row.vals[tag]) > maxRunes[tag]
        THEN NumRunes(row.vals[tag])
        ELSE maxRunes[tag]]

\* variant: the flushed buffer is emptied but kept (rowBuffer[:0])
EmptyBuffer == [isNil |-> FALSE, rows |-> << >>]

\* rowBuffer: a nil slice, or the buffered rows
NilBuffer == [isNil |-> TRUE, rows |-> << >>]
BufferOf(rows) == [isNil |-> FALSE, rows |-> rows]

\* variant: the replay walks the buffer from its end
FlushRowAtReversed(rowBuffer, idx) == rowBuffer.rows[Len(rowBuffer.rows) - idx]

\* asWr.rowBuffer[i] of the replay loop
FlushRowAt(rowBuffer, idx) == rowBuffer.rows[idx + 1]

NoPending == [ch |-> "none"]

\* observation of the moment close(stopChan) happened: how many rows had been
\* passed to the formatter, and whether flush was replaying the buffer
NoStopMark == [raised |-> FALSE, at |-> 0, inReplay |-> FALSE]

VARIABLES conv, k, v, result, cpc,
          pool, made, cursors, calls,
          source, srcPos, nextHist, closer, closeHist,
          numSamples, printWidths, maxRunes, rowBuffer, fwtTr,
          inChan, inClosed, outChan, badRowChan, stopClosed,
          pc, flushIdx, flushFrom, pending, sendRet,
          produced, received, processed, outHist, badHist, closedInSampling,
          stopMark

pvars == <<pool, made, cursors, calls>>
ivars == <<source, srcPos, nextHist, closer, closeHist>>
cvars == <<conv, k, v, result, cpc, pvars, ivars>>
fvars == <<numSamples, printWidths, maxRunes, rowBuffer, fwtTr,
           inChan, inClosed, outChan, badRowChan, stopClosed,
           pc, flushIdx, flushFrom, pending, sendRet,
           produced, received, processed, outHist, badHist, closedInSampling,
           stopMark>>
vars == <<cvars, fvars>>

NoResult == ConvOut("none", NilRow, NoScan, NoScan)

\* the tag sequences of a key tuple (key columns in any order) and of a value
\* tuple (non-key columns in ascending tag order) a table with these column
\* descriptors can store; tags of no described column may appear in either
KeyTagSeqs(cols) == TagSeqs(Tags \ NonPKTags(cols))
ValTagSeqs(cols, kt) ==
    {s \in TagSeqs(Tags \ (PKTags(cols) \cup {kt[i] : i \in DOMAIN kt})) : Ascending(s)}

\* the fields NewAutoSizingFWTTransformer sets; a map answers 0 for a tag it
\* does not hold, the buffer is empty but not nil, the formatter is not built
NewAutoSizingFWTTransformer(n) ==
    /\ numSamples = n
    /\ printWidths = [tag \in SchTags |-> 0]
    /\ maxRunes = [tag \in SchTags |-> 0]
    /\ rowBuffer = BufferOf(<< >>)
    /\ fwtTr = Nil

\* the stage and its four channels before TransformToFWT runs
StageAt(n, start) ==
    /\ NewAutoSizingFWTTransformer(n)
    /\ inChan = << >>
    /\ inClosed = FALSE
    /\ outChan = << >>
    /\ badRowChan = << >>
    /\ stopClosed = FALSE
    /\ pc = start
    /\ flushIdx = 0
    /\ flushFrom = "none"
    /\ pending = NoPending
    /\ sendRet = "none"
    /\ produced = 0
    /\ received = << >>
    /\ processed = << >>
    /\ outHist = << >>
    /\ badHist = << >>
    /\ closedInSampling = FALSE
    /\ stopMark = NoStopMark

\* no stage is running
StageIdle == StageAt(0, "idle")

\* the cursor pool before any call: empty, no cursor created
PoolIdle ==
    /\ pool = {}
    /\ made = {}
    /\ cursors = [c \in Cursors |-> FreshCursor]
    /\ calls = [p \in Procs |-> IdleCall]

\* no iterator is open
IterIdle ==
    /\ source = << >>
    /\ srcPos = 0
    /\ nextHist = << >>
    /\ closer = [present |-> FALSE, err |-> "none"]
    /\ closeHist = << >>

StartConv(tagToSqlColIdx, cols, rowSize, kk, vv) ==
    /\ conv = NewKVToSqlRowConverter(tagToSqlColIdx, cols, rowSize)
    /\ k = kk
    /\ v = vv
    /\ result = NoResult
    /\ cpc = "ready"
    /\ PoolIdle
    /\ IterIdle
    /\ StageIdle

\* well-formed tuples, an absent value, or a key or value that is no tuple
InitWellFormed ==
    \E cols \in ColLists :
    \E rowSize \in Len(cols)..(Len(cols) + 1) :
    \E m \in Mappings(cols, rowSize) :
    \E kt \in KeyTagSeqs(cols) :
    \E vt \in ValTagSeqs(cols, kt) :
    \E kk \in TuplesOf(kt, m, {0}) \cup {NotATuple} :
    \E vv \in TuplesOf(vt, m, {0}) \cup {NullValue, NotATuple} :
        StartConv(m, cols, rowSize, kk, vv)

\* one of the two tuples makes the cursor fail at some operation
InitCorrupt ==
    \E cols \in ColLists :
    \E m \in Mappings(cols, Len(cols)) :
    \E kt \in TagSeqs(PKTags(cols)) :
    \E vt \in {s \in TagSeqs(NonPKTags(cols)) : Ascending(s)} :
    \E kk \in TuplesOf(kt, m, CursorOps(kt)) :
    \E vv \in TuplesOf(vt, m, CursorOps(vt)) :
        /\ (kk.errAt = 0) # (vv.errAt = 0)
        /\ \A i \in DOMAIN kk.ents : kk.ents[i].val = "1"
        /\ \A i \in DOMAIN vv.ents : vv.ents[i].val = "1"
        /\ StartConv(m, cols, Len(cols), kk, vv)

InitConv == InitWellFormed \/ InitCorrupt

Convert ==
    /\ cpc = "ready"
    /\ result' = ConvertKVToSqlRow(conv, k, v)
    /\ cpc' = "returned"
    /\ UNCHANGED <<conv, k, v, pvars, ivars>>
    /\ UNCHANGED fvars

NextConv == Convert

SpecConv == InitConv /\ [][NextConv]_vars

(* -------------------- converter: concurrent calls ---------------------- *)
SetCall(p, c) == calls' = [calls EXCEPT ![p] = c]

\* where a call goes on after its key part
AfterKey(call, cols, keyScan) ==
    IF conv.valsFromVal > 0
    THEN [call EXCEPT !.pc = "valinit", !.cols = cols, !.keyScan = keyScan]
    ELSE [call EXCEPT !.pc = "put", !.cols = cols, !.keyScan = keyScan,
                      !.result = ConvOut("ok", RowOf(cols), keyScan, NoScan)]

\* ConvertKVToSqlRow is entered: the type checks on k and v, then
\* tupItr := types.TupleItrPool.Get(), a pooled cursor or a new one, and the
\* empty slice
CallStart(p) ==
    /\ calls[p].pc \in {"idle", "returned"}
    /\ \E in \in PoolInputs :
         LET kk == in[1]
             vv == in[2]
             c0 == [IdleCall EXCEPT !.k = kk, !.v = vv]
         IN  IF kk.kind # "tuple" \/ (vv.kind # "null" /\ vv.kind # "tuple")
             THEN /\ SetCall(p, [c0 EXCEPT !.pc = "returned",
                                           !.result = ConvOut("err", NilRow, NoScan, NoScan)])
                  /\ UNCHANGED <<pool, made>>
             ELSE \E c \in pool \cup (Cursors \ made) :
                    /\ pool' = PoolAfterGet(pool, c)
                    /\ made' = made \cup {c}
                    /\ LET cols0 == [i \in 1..conv.rowSize |-> Nil]
                           c1 == [c0 EXCEPT !.cur = c, !.cols = cols0]
                       IN  IF conv.valsFromKey > 0
                           THEN SetCall(p, [c1 EXCEPT !.pc = "keyinit"])
                           ELSE SetCall(p, AfterKey(c1, cols0, NoScan))
    /\ UNCHANGED <<ivars, conv, k, v, result, cpc, cursors>>
    /\ UNCHANGED fvars

\* processTuple on the key: tupItr.InitForTuple(keyTup)
KeyInit(p) ==
    /\ calls[p].pc = "keyinit"
    /\ IF calls[p].k.errAt = 1
       THEN /\ SetCall(p, [calls[p] EXCEPT
                   !.pc = "put",
                   !.keyScan = ScanOut("err", calls[p].cols, 0, 0),
                   !.result = ErrorReturn("err", calls[p].cols,
                                          ScanOut("err", calls[p].cols, 0, 0), NoScan)])
            /\ UNCHANGED cursors
       ELSE /\ cursors' = [cursors EXCEPT ![calls[p].cur] = InitForTuple(calls[p].k)]
            /\ SetCall(p, [calls[p] EXCEPT !.pc = "keyscan"])
    /\ UNCHANGED <<ivars, conv, k, v, result, cpc, pool, made>>
    /\ UNCHANGED fvars

\* processTuple on the key: the loop, reading through the cursor
KeyScan(p) ==
    /\ calls[p].pc = "keyscan"
    /\ LET out == processLoop(conv, calls[p].cols, conv.valsFromKey, KeyScanMaxTag(conv),
                              cursors[calls[p].cur], 0, 0, 0)
       IN  IF out.status # "ok"
           THEN SetCall(p, [calls[p] EXCEPT
                   !.pc = "put", !.keyScan = out,
                   !.result = ErrorReturn(out.status, out.cols, out, NoScan)])
           ELSE SetCall(p, AfterKey(calls[p], out.cols, out))
    /\ UNCHANGED <<ivars, conv, k, v, result, cpc, pool, made, cursors>>
    /\ UNCHANGED fvars

\* the value tuple of a call: the zero Tuple when v is null
ValTupOf(vv) == IF vv.kind = "null" THEN ZeroTuple ELSE vv

\* processTuple on the value: tupItr.InitForTuple(valTup)
ValInit(p) ==
    /\ calls[p].pc = "valinit"
    /\ IF ValTupOf(calls[p].v).errAt = 1
       THEN /\ SetCall(p, [calls[p] EXCEPT
                   !.pc = "put",
                   !.result = ErrorReturn("err", calls[p].cols, calls[p].keyScan,
                                          ScanOut("err", calls[p].cols, 0, 0))])
            /\ UNCHANGED cursors
       ELSE /\ cursors' = [cursors EXCEPT ![calls[p].cur] = InitForTuple(ValTupOf(calls[p].v))]
            /\ SetCall(p, [calls[p] EXCEPT !.pc = "valscan"])
    /\ UNCHANGED <<ivars, conv, k, v, result, cpc, pool, made>>
    /\ UNCHANGED fvars

\* processTuple on the value: the loop, reading through the cursor
ValScan(p) ==
    /\ calls[p].pc = "valscan"
    /\ LET out == processLoop(conv, calls[p].cols, conv.valsFromVal, conv.maxValTag,
                              cursors[calls[p].cur], 0, 0, 0)
       IN  IF out.status # "ok"
           THEN SetCall(p, [calls[p] EXCEPT
                   !.pc = "put",
                   !.result = ErrorReturn(out.status, out.cols, calls[p].keyScan, out)])
           ELSE SetCall(p, [calls[p] EXCEPT
                   !.pc = "put", !.cols = out.cols,
                   !.result = ConvOut("ok", RowOf(out.cols), calls[p].keyScan, out)])
    /\ UNCHANGED <<ivars, conv, k, v, result, cpc, pool, made, cursors>>
    /\ UNCHANGED fvars

\* defer types.TupleItrPool.Put(tupItr), then the call returns
TupleItrPoolPut(p) ==
    /\ calls[p].pc = "put"
    /\ pool' = PoolAfterPut(pool, calls[p].cur)
    /\ SetCall(p, [calls[p] EXCEPT !.pc = "returned", !.cur = NoCursor])
    /\ UNCHANGED <<ivars, conv, k, v, result, cpc, made, cursors>>
    /\ UNCHANGED fvars

InitPool ==
    /\ conv \in PoolConvs
    /\ k = NullValue
    /\ v = NullValue
    /\ result = NoResult
    /\ cpc = "idle"
    /\ PoolIdle
    /\ IterIdle
    /\ StageIdle

NextPool ==
    \E p \in Procs :
        \/ CallStart(p)
        \/ KeyInit(p)
        \/ KeyScan(p)
        \/ ValInit(p)
        \/ ValScan(p)
        \/ TupleItrPoolPut(p)

SpecPool == InitPool /\ [][NextPool]_vars

(* -------------------- row source iterator: actions --------------------- *)
\* NewDoltMapIter over a map iterator holding items
InitIter ==
    /\ conv \in PoolConvs
    /\ k = NullValue
    /\ v = NullValue
    /\ result = NoResult
    /\ cpc = "idle"
    /\ PoolIdle
    /\ StageIdle
    /\ source \in UNION {[1..n -> SourceItems] : n \in 0..MaxPairs}
    /\ srcPos = 0
    /\ nextHist = << >>
    /\ closer \in Closers
    /\ closeHist = << >>

\* one DoltMapIter.Next call
IterNext ==
    /\ srcPos < Len(source) + MaxEofCalls
    /\ nextHist' = Append(nextHist,
                          DoltMapIterNext(conv, GetFunc(MapIteratorNext(source, srcPos))))
    /\ srcPos' = srcPos + 1
    /\ UNCHANGED <<source, closer, closeHist, conv, k, v, result, cpc, pvars>>
    /\ UNCHANGED fvars

\* one DoltMapIter.Close call; the call is recorded with the number of Next
\* calls made before it
IterClose ==
    /\ Len(closeHist) < MaxCloses
    /\ closeHist' = Append(closeHist, [err |-> DoltMapIterClose(closer), at |-> Len(nextHist)])
    /\ UNCHANGED <<source, srcPos, nextHist, closer, conv, k, v, result, cpc, pvars>>
    /\ UNCHANGED fvars

NextIter == IterNext \/ IterClose

SpecIter == InitIter /\ [][NextIter]_vars

(* --------------------- adaptive stage: actions ------------------------- *)
\* no conversion is running
ConvIdle ==
    /\ conv = NewKVToSqlRowConverter(<< >>, << >>, 0)
    /\ k = NullValue
    /\ v = NullValue
    /\ result = NoResult
    /\ cpc = "idle"
    /\ PoolIdle
    /\ IterIdle

Init ==
    /\ ConvIdle
    /\ \E n \in (-1)..MaxSamples : StageAt(n, "check")

chans == <<inChan, inClosed, outChan, badRowChan, stopClosed, stopMark>>
learned == <<printWidths, maxRunes>>

\* processRow up to its channel send: the formatter is asked, and the stage
\* is left at the send of the failure or of the augmented row, or goes on at
\* next when the formatter gave neither an error nor exactly one row
processRow(rowWithProps, next) ==
    IF fwtTr = Nil
    THEN /\ pc' = "panic"
         /\ UNCHANGED <<pending, sendRet, processed>>
    ELSE LET t == Transform(fwtTr, rowWithProps.Row, rowWithProps.Props) IN
         /\ processed' = Append(processed, rowWithProps.Row)
         /\ IF t.errMsg # ""
            THEN /\ pending' = [ch |-> "bad",
                                item |-> [Row |-> rowWithProps.Row,
                                          TransformName |-> TransformName,
                                          Details |-> t.errMsg]]
                 /\ pc' = "send"
                 /\ sendRet' = next
            ELSE IF Len(t.rds) = 1
            THEN LET propUpdates == t.rds[1].PropertyUpdates
                     outProps == IF DOMAIN propUpdates # {}
                                 THEN SetProps(rowWithProps.Props, propUpdates)
                                 ELSE rowWithProps.Props
                 IN  /\ pending' = [ch |-> "out",
                                    item |-> [Row |-> t.rds[1].RowData,
                                              Props |-> outProps]]
                     /\ pc' = "send"
                     /\ sendRet' = next
            ELSE /\ pc' = next
                 /\ UNCHANGED <<pending, sendRet>>

\* the head of flush: the formatter is built once, the replay starts at row 0
flush(from) ==
    /\ fwtTr' = IF fwtTr = Nil
                THEN NewFWTTransformer(printWidths, maxRunes)
                ELSE fwtTr
    /\ flushIdx' = 0
    /\ flushFrom' = from
    /\ pc' = "flush"

\* variant: flush starts over instead of returning
FlushReturnKeepsReplaying == "flush"

\* where the stage goes on when flush returns
FlushReturn == IF flushFrom = "final" THEN "done" ELSE "check"

\* variant: a sample size of 0 or less is a limit like any other
StillSamplingStrict(n, buffered) == buffered < n

\* variant: the row that arrives when the sample is full is buffered too
StillSamplingInclusive(n, buffered) == n <= 0 \/ buffered <= n

\* the test of handleRow's second branch: the row is sampled and buffered
StillSampling(n, buffered) == n <= 0 \/ buffered < n

handleRow(r) ==
    IF rowBuffer.isNil
    THEN /\ processRow(r, "check")
         /\ UNCHANGED <<learned, rowBuffer, fwtTr, flushIdx, flushFrom>>
    ELSE IF StillSampling(numSamples, Len(rowBuffer.rows))
    THEN /\ printWidths' = LearnPrintWidths(printWidths, r.Row)
         /\ maxRunes' = LearnMaxRunes(maxRunes, r.Row)
         /\ rowBuffer' = BufferOf(Append(rowBuffer.rows, r))
         /\ pc' = "check"
         /\ UNCHANGED <<fwtTr, flushIdx, flushFrom, pending, sendRet, processed>>
    ELSE /\ flush("handleRow")
         /\ UNCHANGED <<learned, rowBuffer, pending, sendRet, processed>>

\* first select of the row loop: a stop already raised ends the stage
CheckStop ==
    /\ pc = "check"
    /\ pc' = IF stopClosed THEN "done" ELSE "select"
    /\ UNCHANGED <<cvars, numSamples, learned, rowBuffer, fwtTr, chans, flushIdx, flushFrom,
                   pending, sendRet, produced, received, processed, outHist,
                   badHist, closedInSampling>>

\* second select, case <-stopChan
SelectStop ==
    /\ pc = "select"
    /\ stopClosed
    /\ pc' = "done"
    /\ UNCHANGED <<cvars, numSamples, learned, rowBuffer, fwtTr, chans, flushIdx, flushFrom,
                   pending, sendRet, produced, received, processed, outHist,
                   badHist, closedInSampling>>

\* second select, case r, ok := <-inChan with ok
SelectRow ==
    /\ pc = "select"
    /\ inChan # << >>
    /\ inChan' = Tail(inChan)
    /\ received' = Append(received, Head(inChan).Row)
    /\ handleRow(Head(inChan))
    /\ UNCHANGED <<cvars, numSamples, inClosed, outChan, badRowChan, stopClosed, stopMark,
                   produced, outHist, badHist, closedInSampling>>

\* second select, case r, ok := <-inChan with !ok: leave the loop, final flush
SelectClosed ==
    /\ pc = "select"
    /\ inChan = << >>
    /\ inClosed
    /\ closedInSampling' = ~rowBuffer.isNil
    /\ flush("final")
    /\ UNCHANGED <<cvars, numSamples, learned, rowBuffer, chans, pending, sendRet,
                   produced, received, processed, outHist, badHist>>

\* one turn of the replay loop up to the send, or the end of flush
FlushRow ==
    /\ pc = "flush"
    /\ IF flushIdx < Len(rowBuffer.rows)
       THEN /\ processRow(FlushRowAt(rowBuffer, flushIdx), "checkpoint")
            /\ UNCHANGED rowBuffer
       ELSE /\ rowBuffer' = NilBuffer
            /\ pc' = FlushReturn
            /\ UNCHANGED <<pending, sendRet, processed>>
    /\ UNCHANGED <<cvars, numSamples, learned, fwtTr, chans, flushIdx, flushFrom,
                   produced, received, outHist, badHist, closedInSampling>>

\* the stop check of the replay loop, made when i%100 == 0
Checkpoint ==
    /\ pc = "checkpoint"
    /\ IF flushIdx % CheckpointEvery = 0 /\ stopClosed
       THEN /\ pc' = FlushReturn
            /\ UNCHANGED flushIdx
       ELSE /\ pc' = "flush"
            /\ flushIdx' = flushIdx + 1
    /\ UNCHANGED <<cvars, numSamples, learned, rowBuffer, fwtTr, chans, flushFrom,
                   pending, sendRet, produced, received, processed, outHist,
                   badHist, closedInSampling>>

\* outChan <- outRow: waits while the output queue is full
SendOut ==
    /\ pc = "send"
    /\ pending.ch = "out"
    /\ Len(outChan) < ChanCap
    /\ outChan' = Append(outChan, pending.item)
    /\ outHist' = Append(outHist, pending.item)
    /\ pending' = NoPending
    /\ pc' = sendRet
    /\ UNCHANGED <<cvars, numSamples, learned, rowBuffer, fwtTr, inChan, inClosed,
                   badRowChan, stopClosed, stopMark, flushIdx, flushFrom, sendRet, produced,
                   received, processed, badHist, closedInSampling>>

\* badRowChan <- failure: waits while the error queue is full
SendBad ==
    /\ pc = "send"
    /\ pending.ch = "bad"
    /\ Len(badRowChan) < ChanCap
    /\ badRowChan' = Append(badRowChan, pending.item)
    /\ badHist' = Append(badHist, pending.item)
    /\ pending' = NoPending
    /\ pc' = sendRet
    /\ UNCHANGED <<cvars, numSamples, learned, rowBuffer, fwtTr, inChan, inClosed,
                   outChan, stopClosed, stopMark, flushIdx, flushFrom, sendRet, produced,
                   received, processed, outHist, closedInSampling>>

TransformToFWT ==
    \/ CheckStop
    \/ SelectStop
    \/ SelectRow
    \/ SelectClosed
    \/ FlushRow
    \/ Checkpoint
    \/ SendOut
    \/ SendBad

(* ------------------- adaptive stage: environment ----------------------- *)
stage == <<numSamples, learned, rowBuffer, fwtTr, pc, flushIdx, flushFrom, pending, sendRet,
           received, processed, closedInSampling>>

\* the pipeline is observed while the stage runs
Running == pc \notin {"idle", "done", "panic"}

\* the upstream stage puts a row on the input queue
Produce ==
    /\ Running
    /\ ~inClosed
    /\ produced < MaxRows
    /\ Len(inChan) < ChanCap
    /\ \E in \in InputRows :
          inChan' = Append(inChan, RowWithProps(produced + 1, in[1], in[2]))
    /\ produced' = produced + 1
    /\ UNCHANGED <<cvars, stage, inClosed, outChan, badRowChan, stopClosed, stopMark,
                   outHist, badHist>>

\* the upstream stage closes the input queue
CloseIn ==
    /\ Running
    /\ ~inClosed
    /\ inClosed' = TRUE
    /\ UNCHANGED <<cvars, stage, inChan, outChan, badRowChan, stopClosed, stopMark,
                   produced, outHist, badHist>>

\* the downstream stage takes a row off the output queue
ConsumeOut ==
    /\ Running
    /\ outChan # << >>
    /\ outChan' = Tail(outChan)
    /\ UNCHANGED <<cvars, stage, inChan, inClosed, badRowChan, stopClosed, stopMark,
                   produced, outHist, badHist>>

\* the failure handler takes a failure off the error queue
ConsumeBad ==
    /\ Running
    /\ badRowChan # << >>
    /\ badRowChan' = Tail(badRowChan)
    /\ UNCHANGED <<cvars, stage, inChan, inClosed, outChan, stopClosed, stopMark,
                   produced, outHist, badHist>>

\* flush is in its replay loop (processRow of a buffered row included)
InReplay == pc \in {"flush", "checkpoint"} \/ (pc = "send" /\ sendRet = "checkpoint")

\* the pipeline raises the cancellation signal (close(stopChan))
RaiseStop ==
    /\ Running
    /\ ~stopClosed
    /\ stopClosed' = TRUE
    /\ stopMark' = [raised |-> TRUE, at |-> Len(processed), inReplay |-> InReplay]
    /\ UNCHANGED <<cvars, stage, inChan, inClosed, outChan, badRowChan,
                   produced, outHist, badHist>>

Next ==
    \/ TransformToFWT
    \/ Produce
    \/ CloseIn
    \/ ConsumeOut
    \/ ConsumeBad
    \/ RaiseStop

Spec == Init /\ [][Next]_vars

\* the stage is a running goroutine: a step it can take is eventually taken
FairSpec == Spec /\ WF_vars(TransformToFWT)

(* ---------------- adaptive stage: observed from the replay ------------- *)
\* the i-th row a long run has received: row 2 is rejected by the formatter,
\* row 3 is answered with no result row, every other row is accepted
ReplayRow(i) ==
    LET wide == [tag \in SchTags |-> IF tag = 1 THEN [kind |-> "string", w |-> 4, r |-> 2]
                                                ELSE NullValue]
        both == [tag \in SchTags |-> IF tag = 1 THEN [kind |-> "string", w |-> 3, r |-> 3]
                                                ELSE [kind |-> "string", w |-> 4, r |-> 2]]
    IN  IF i = 2 THEN RowWithProps(i, both, "err")
        ELSE IF i = 3 THEN RowWithProps(i, wide, "none")
        ELSE RowWithProps(i, wide, "ok")

ReplayRows(n) == [i \in 1..n |-> ReplayRow(i)]

\* the largest of a set of naturals, 0 for the empty set
Largest(S) == CHOOSE m \in S \cup {0} : \A n \in S \cup {0} : n <= m

\* what handleRow has learned for tag after it buffered rows: the largest
\* width, and the largest rune count, of the non-null values
LearnedWidth(rows, tag) ==
    Largest({StringWidth(rows[i].Row.vals[tag]) :
               i \in {j \in DOMAIN rows : ~IsNull(rows[j].Row.vals[tag])}})

LearnedRunes(rows, tag) ==
    Largest({NumRunes(rows[i].Row.vals[tag]) :
               i \in {j \in DOMAIN rows : ~IsNull(rows[j].Row.vals[tag])}})

\* a Sampling stage that has buffered n rows, at the top of its row loop, the
\* input queue closed behind it: either sampling without a limit (the final
\* flush replays the buffer) or with sample size n and one more row queued
\* (handleRow replays the buffer)
StageBuffered(n, unlimited) ==
    LET rows == ReplayRows(n) IN
    /\ numSamples = IF unlimited THEN 0 ELSE n
    /\ printWidths = [tag \in SchTags |-> LearnedWidth(rows, tag)]
    /\ maxRunes = [tag \in SchTags |-> LearnedRunes(rows, tag)]
    /\ rowBuffer = BufferOf(rows)
    /\ fwtTr = Nil
    /\ inChan = IF unlimited THEN << >> ELSE <<ReplayRow(n + 1)>>
    /\ inClosed = TRUE
    /\ outChan = << >>
    /\ badRowChan = << >>
    /\ stopClosed = FALSE
    /\ pc = "check"
    /\ flushIdx = 0
    /\ flushFrom = "none"
    /\ pending = NoPending
    /\ sendRet = "none"
    /\ produced = IF unlimited THEN n ELSE n + 1
    /\ received = [i \in 1..n |-> rows[i].Row]
    /\ processed = << >>
    /\ outHist = << >>
    /\ badHist = << >>
    /\ closedInSampling = FALSE
    /\ stopMark = NoStopMark

\* a new stage, or a stage met with a long buffer just before its replay
InitReplay ==
    \/ Init
    \/ /\ ConvIdle
       /\ \E n \in {ReplayLen - 1, ReplayLen}, unlimited \in BOOLEAN :
             StageBuffered(n, unlimited)

SpecReplay == InitReplay /\ [][Next]_vars

(* ------------------------- converter: claims --------------------------- *)
Returned == cpc = "returned"
ReturnedRow == Returned /\ result.status = "ok" /\ ~result.row.isNil
TagsIn(t) == {t.ents[i].tag : i \in DOMAIN t.ents}
RawIn(t, tag) == t.ents[CHOOSE i \in DOMAIN t.ents : t.ents[i].tag = tag].val
\* the raw value stored under tag in the key or the value tuple of the call
RawOf(tag) == IF tag \in TagsIn(k) THEN RawIn(k, tag) ELSE RawIn(v, tag)
PresentTags == TagsIn(k) \cup TagsIn(v)
ColumnWithTag(tag) ==
    conv.cols[CHOOSE i \in DOMAIN conv.cols : conv.cols[i].Tag = tag]
AllNil == [i \in 1..conv.rowSize |-> Nil]

\* C1: for well-formed key and value tuples a returned row has length
\* rowSize, the slot mapped to each requested tag that is present in either
\* tuple holds that entry's converted value, and every other slot is nil.
C1_RequestedPresentTagsFilled ==
    (ReturnedRow /\ WellFormed(k) /\ WellFormed(v)) =>
        /\ Len(result.row.cols) = conv.rowSize
        /\ \A i \in 0..(conv.rowSize - 1) :
             LET ts == {t \in DOMAIN conv.tagToSqlColIdx \cap PresentTags :
                           conv.tagToSqlColIdx[t] = i}
             IN  IF ts = {}
                 THEN result.row.cols[i + 1] = Nil
                 ELSE \A t \in ts :
                        result.row.cols[i + 1] =
                          ConvertNomsValueToValue(ConverterFor(conv, t, i), RawOf(t)).val

RECURSIVE fullScanFrom(_, _, _)
\* reference: every entry of tup from entry i on is looked at, none is left out
fullScanFrom(cols, tup, i) ==
    IF i > Len(tup.ents) THEN cols
    ELSE LET tag == tup.ents[i].tag IN
         IF tag \in DOMAIN conv.tagToSqlColIdx
            /\ conv.tagToSqlColIdx[tag] < Len(conv.cols)
         THEN LET idx == conv.tagToSqlColIdx[tag] IN
              fullScanFrom(
                [cols EXCEPT ![idx + 1] =
                   ConvertNomsValueToValue(ConverterFor(conv, tag, idx),
                                           tup.ents[i].val).val],
                tup, i + 1)
         ELSE fullScanFrom(cols, tup, i + 1)

ColsAfterKeyScan == IF conv.valsFromKey > 0 THEN result.keyScan.cols ELSE AllNil

\* C4: on an ascending value tuple the scan with early exit leaves the same
\* row as a scan of the whole tuple, and reads no entry after the first entry
\* whose tag exceeds the maximum requested value tag.
C4_EarlyExitEqualsFullScan ==
    (ReturnedRow /\ WellFormed(k) /\ WellFormed(v) /\ conv.valsFromVal > 0) =>
        /\ result.valScan.cols = fullScanFrom(ColsAfterKeyScan, v, 1)
        /\ \A i \in DOMAIN v.ents :
             v.ents[i].tag > conv.maxValTag => result.valScan.visited <= i

KeyScanned == ReturnedRow /\ WellFormed(k) /\ conv.valsFromKey > 0

C6_ConverterChosenByTag ==
    (ReturnedRow /\ WellFormed(k) /\ WellFormed(v)) =>
        \A t \in DOMAIN conv.tagToSqlColIdx \cap PresentTags :
            LET slot == result.row.cols[conv.tagToSqlColIdx[t] + 1] IN
            slot # Nil => slot.ti = ColumnWithTag(t).TypeInfo

\* C7: every failing path returns an error and a nil row: a key that is no
\* tuple, a non-absent value that is no tuple, a failed cursor operation and a
\* failed converter; a row is returned only without an error.
C7_ErrorMeansNoRow ==
    Returned =>
        /\ result.status = "err" => result.row = NilRow
        /\ k.kind # "tuple" => result.status = "err"
        /\ (v.kind # "tuple" /\ v.kind # "null") => result.status = "err"
        /\ (result.keyScan.status \in {"err", "converr"}
              \/ result.valScan.status \in {"err", "converr"})
             => result.status = "err"
        /\ result.status = "ok" =>
             (~result.row.isNil /\ Len(result.row.cols) = conv.rowSize)

\* C7 witness: a converter fails in the value tuple after the key scan has
\* already filled a slot
C7_Witness ==
    /\ Returned
    /\ result.status = "err"
    /\ result.valScan.status = "converr"
    /\ result.keyScan.filled > 0
    /\ \E i \in DOMAIN result.valScan.cols : result.valScan.cols[i] # Nil

(* --------------------- adaptive stage: claims -------------------------- *)
IdsOf(rows) == {rows[j].id : j \in DOMAIN rows}
BufferedRows == [j \in DOMAIN rowBuffer.rows |-> rowBuffer.rows[j].Row]
OutIds == {outHist[j].Row.id : j \in DOMAIN outHist}
BadIds == {badHist[j].Row.id : j \in DOMAIN badHist}
\* the place of a row in the order of reception
PosReceived(id) == CHOOSE j \in DOMAIN received : received[j].id = id
\* the stage is between two rows and no stop has been raised
BetweenRows == pc \in {"check", "select"} /\ ~stopClosed
MaxOf(S) == CHOOSE m \in S \cup {0} : \A n \in S \cup {0} : n <= m
WidthOver(rows, tag) ==
    MaxOf({StringWidth(rows[j].vals[tag]) :
             j \in {n \in DOMAIN rows : ~IsNull(rows[n].vals[tag])}})
RunesOver(rows, tag) ==
    MaxOf({NumRunes(rows[j].vals[tag]) :
             j \in {n \in DOMAIN rows : ~IsNull(rows[n].vals[tag])}})

\* C2: no received row is dropped by the transition to Materialized: while
\* no stop is raised, every row received so far is still buffered or has been
\* passed to the formatter once handleRow has returned, the row that arrived
\* after numSamples rows were buffered included.
C2_ArrivingRowPassedToFormatter ==
    BetweenRows =>
        \A j \in DOMAIN received :
            received[j].id \in IdsOf(BufferedRows) \cup IdsOf(processed)

\* C3: once the stop channel is closed the stage eventually returns, whatever
\* the queues and their consumers do.
C3_StopLeadsToReturn == stopClosed ~> (pc = "done")

\* C8: when the input queue is closed while the stage is Sampling, the
\* formatter is built from the per-tag maxima of display width and rune count
\* over the non-null values of exactly the buffered rows, which are all the
\* rows received; the replay passes every buffered row to the formatter in
\* order and the stage returns with the buffer discarded (a replay that a
\* raised stop cut short at a checkpoint is the only other way to return).
C8_FinalFlushWhileSampling ==
    closedInSampling =>
        /\ fwtTr # Nil
        /\ \A tag \in SchTags :
             /\ fwtTr.printWidths[tag] = WidthOver(received, tag)
             /\ fwtTr.maxRunes[tag] = RunesOver(received, tag)
        /\ ~rowBuffer.isNil => BufferedRows = received
        /\ (pc = "done" /\ ~stopClosed) => rowBuffer.isNil
        /\ rowBuffer.isNil => (processed = received /\ pc = "done")

\* C8 witness: the input was closed on a Sampling stage that had buffered two
\* rows whose widest and longest values differ, and the stage has returned
C8_Witness ==
    /\ closedInSampling
    /\ pc = "done"
    /\ ~stopClosed
    /\ Len(received) >= 2
    /\ processed = received
    /\ fwtTr.printWidths[1] = 4
    /\ fwtTr.maxRunes[1] = 3

\* C9: a row the formatter rejects gives exactly one TransformFailure with
\* that row and the name of this stage on the error queue and nothing on the
\* output queue, and every row received after it is still passed to the
\* formatter and, when accepted, delivered on the output queue.
C9_FailureIsLocal ==
    /\ \A j \in DOMAIN processed :
         (processed[j].verdict = "err" /\ pc # "send") =>
             /\ Cardinality({n \in DOMAIN badHist :
                               badHist[n].Row = processed[j]}) = 1
             /\ \A n \in DOMAIN badHist :
                  badHist[n].Row = processed[j] =>
                      badHist[n].TransformName = TransformName
             /\ processed[j].id \notin OutIds
    /\ (BetweenRows /\ rowBuffer.isNil) =>
         \A j \in DOMAIN processed : processed[j].verdict = "err" =>
             \A n \in DOMAIN received :
                 n > PosReceived(processed[j].id) =>
                     /\ received[n].id \in IdsOf(processed)
                     /\ received[n].verdict = "ok" => received[n].id \in OutIds

\* C10: rows reach the output queue in the order of their reception; the
\* buffered rows are replayed in arrival order and before any later row.
C10_FifoOrder ==
    /\ \A a, b \in DOMAIN outHist :
         a < b => PosReceived(outHist[a].Row.id) < PosReceived(outHist[b].Row.id)
    /\ \A a, b \in DOMAIN processed :
         a < b => PosReceived(processed[a].id) < PosReceived(processed[b].id)
    /\ ~rowBuffer.isNil =>
         /\ Len(processed) <= Len(rowBuffer.rows)
         /\ \A j \in DOMAIN processed : processed[j] = BufferedRows[j]

\* C10 witness: two buffered rows were replayed and a row received after the
\* transition followed them on the output queue
C10_Witness ==
    /\ numSamples = 2
    /\ Len(outHist) = 3
    /\ outHist[3].Row.id = 4
    /\ outHist[1].Row.id = 1

\* the stage is Materialized: flush has discarded the buffer
Materialized == rowBuffer.isNil

\* C11: Materialized is absorbing.  Once the buffer is discarded it stays
\* discarded, the formatter is built and stays the same, the learned width
\* maps are not modified, and a row received from then on is passed to the
\* formatter in the same step; once the formatter is built it is never
\* rebuilt, the learned maps are frozen and nothing is appended to the buffer.
C11_MaterializedIsAbsorbing ==
    [][/\ Materialized =>
            /\ rowBuffer'.isNil
            /\ fwtTr # Nil
            /\ fwtTr' = fwtTr
            /\ learned' = learned
            /\ received' # received =>
                 processed' = Append(processed, received'[Len(received')])
       /\ fwtTr # Nil =>
            /\ fwtTr' = fwtTr
            /\ learned' = learned
            /\ rowBuffer' = rowBuffer \/ rowBuffer' = NilBuffer]_vars

\* C11 witness: with sample size 1 the buffer was replayed and discarded, and
\* a row received afterwards went through the formatter built from row 1 only
C11_Witness ==
    /\ numSamples = 1
    /\ Materialized
    /\ Len(received) = 3
    /\ Len(processed) = 2
    /\ processed[2].id = 3
    /\ fwtTr.printWidths[1] = 3
    /\ received[3].vals[1].w = 4

\* C12: after close(stopChan) the stage passes at most 100 further rows to
\* the formatter when the stop came during a replay, and at most one when it
\* came outside one; and a stage that has not returned after a stop can take
\* a step unless it waits at a send on a full queue.
C12_StopsWithinOneCheckpoint ==
    /\ stopMark.raised =>
         Len(processed) - stopMark.at <= IF stopMark.inReplay THEN 100 ELSE 1
    /\ (stopClosed /\ Running /\ pc # "send") => ENABLED TransformToFWT
    /\ (stopClosed /\ pc = "send" /\ pending.ch = "out" /\ Len(outChan) < ChanCap)
         => ENABLED SendOut
    /\ (stopClosed /\ pc = "send" /\ pending.ch = "bad" /\ Len(badRowChan) < ChanCap)
         => ENABLED SendBad

\* C12 witness: the stop came during a replay right after the first stop
\* check; the stage replayed 100 more rows, saw the stop at row index 100 and
\* returned with buffered rows left unreplayed
C12_Witness ==
    /\ stopMark.raised
    /\ stopMark.inReplay
    /\ stopMark.at = 1
    /\ pc = "done"
    /\ Len(processed) = 101
    /\ ~rowBuffer.isNil
    /\ Len(rowBuffer.rows) > Len(processed)

\* the stage is at a read of the stop channel that finds it closed
AtStopCheck ==
    /\ stopClosed
    /\ \/ pc = "check"
       \/ pc = "checkpoint" /\ flushIdx % CheckpointEvery = 0

\* C13: a stage that reads the closed stop channel returns (from flush to the
\* row loop, whose next stop check returns) without receiving a row, passing
\* a row to the formatter, emitting on either queue or discarding the buffer;
\* the same holds when the second select takes its stop case; and every
\* failure on the error queue carries a row the formatter rejected.
C13_CancellationIsNotAnError ==
    [][/\ ((AtStopCheck \/ (pc = "select" /\ stopClosed /\ pc' = "done")) /\ pc' # pc) =>
            /\ pc' = IF pc = "checkpoint" /\ flushFrom = "handleRow" THEN "check" ELSE "done"
            /\ received' = received
            /\ processed' = processed
            /\ rowBuffer' = rowBuffer
            /\ outHist' = outHist
            /\ badHist' = badHist
            /\ inChan' = inChan
       /\ \A n \in DOMAIN badHist' :
            /\ badHist'[n].Row.verdict = "err"
            /\ badHist'[n].Row.id \in IdsOf(processed')
            /\ badHist'[n].Details = Transform(fwtTr', badHist'[n].Row, NoProps).errMsg]_vars

\* C13 witness: the stage returned on a stop while Sampling; the buffered
\* rows, one of which the formatter would reject, were not replayed, a row is
\* left on the input queue and the error queue was never used
C13_Witness ==
    /\ pc = "done"
    /\ stopClosed
    /\ ~rowBuffer.isNil
    /\ Len(rowBuffer.rows) = 2
    /\ rowBuffer.rows[1].Row.verdict = "err"
    /\ inChan # << >>
    /\ processed = << >>
    /\ badHist = << >>

(* ----------------------- cursor pool: claims --------------------------- *)
HeldBy(p) == calls[p].cur
Holding == {p \in Procs : HeldBy(p) # NoCursor}

\* C14: a call holds a cursor only between its Get and its deferred Put, so
\* a call that has returned (with a row, a cursor error, a converter error or
\* a panic) holds none and, when no call is under way, every cursor created
\* is back in the pool; no cursor is held by two calls or held while in the
\* pool; and each call returns what ConvertKVToSqlRow gives for its own key
\* and value, whichever cursor it was handed and whatever that cursor was
\* used for before.
C14_CursorsReturnedAndExclusive ==
    /\ \A p \in Procs :
         /\ calls[p].pc \in {"idle", "returned"} => HeldBy(p) = NoCursor
         /\ calls[p].pc \in {"keyinit", "keyscan", "valinit", "valscan", "put"}
              => HeldBy(p) \in made
         /\ calls[p].pc = "returned" =>
              calls[p].result = ConvertKVToSqlRow(conv, calls[p].k, calls[p].v)
    /\ \A p, q \in Holding : HeldBy(p) = HeldBy(q) => p = q
    /\ pool = made \ {HeldBy(p) : p \in Holding}

\* C14 witness: call 1 returned a cursor read error and put its cursor back
\* while call 2 is scanning its value tuple through a cursor that call 1's
\* key or value was last read through
C14_Witness ==
    /\ calls[1].pc = "returned"
    /\ calls[1].result.valScan.status = "err"
    /\ calls[2].pc = "valscan"
    /\ made = Cursors
    /\ pool # {}
    /\ \E c \in pool : cursors[c] = calls[1].v

(* -------------------- row source iterator: claims ---------------------- *)
\* what the j-th Next call has to report: the converter's outcome for the
\* j-th item, the source's own failure, or end of sequence and no row
ExpectedOfNext(j) ==
    IF j > Len(source)
    THEN [row |-> NilRow, err |-> "EOF"]
    ELSE IF source[j].err # "none"
    THEN [row |-> NilRow, err |-> source[j].err]
    ELSE RowAndError(ConvertKVToSqlRow(conv, source[j].k, source[j].v))

\* C15: every Next call pulls one item, and the j-th call returns the
\* converter's row or error for the j-th pair unchanged, whatever the earlier
\* calls returned; a call made after the last pair returns io.EOF and no row.
C15_NextReportsKthPair ==
    /\ srcPos = Len(nextHist)
    /\ \A j \in DOMAIN nextHist : nextHist[j] = ExpectedOfNext(j)
    /\ \A j \in DOMAIN nextHist :
         j > Len(source) => (nextHist[j].err = "EOF" /\ nextHist[j].row.isNil)

\* C15 witness: the first pair failed to decode, the second gave a row, the
\* third call met the end of the sequence
C15_Witness ==
    /\ Len(source) = 2
    /\ Len(nextHist) = 3
    /\ nextHist[1].err = "decode failed"
    /\ nextHist[2].err = "none"
    /\ ~nextHist[2].row.isNil
    /\ nextHist[2].row.cols[1] # Nil
    /\ nextHist[3].err = "EOF"

\* C17: every Close call returns nil when closeKVGetter is nil and the
\* callback's error otherwise, in whatever state of the iteration it is made,
\* and leaves the rows and errors earlier Next calls returned, and the
\* position in the source, as they were.
C17_CloseReturnsCallbackResult ==
    [][/\ \A j \in DOMAIN closeHist' :
            closeHist'[j].err = IF closer.present THEN closer.err ELSE "none"
       /\ closeHist' # closeHist =>
            /\ nextHist' = nextHist
            /\ srcPos' = srcPos
            /\ source' = source
            /\ closer' = closer]_vars

\* C17 witness: a failing callback was called after a decode error and again
\* after the end of the sequence, with a returned row in between
C17_Witness ==
    /\ closer = [present |-> TRUE, err |-> "close failed"]
    /\ Len(closeHist) = 2
    /\ closeHist[1] = [err |-> "close failed", at |-> 1]
    /\ closeHist[2] = [err |-> "close failed", at |-> 3]
    /\ Len(source) = 2
    /\ Len(nextHist) = 3
    /\ nextHist[1].err = "decode failed"
    /\ ~nextHist[2].row.isNil
    /\ nextHist[3].err = "EOF"

(* ----------------------- absent value: claim --------------------------- *)
\* the converter was called with a well-formed key and the null value, and
\* its key scan, if it made one, did not fail
NullValueCall ==
    /\ Returned
    /\ WellFormed(k)
    /\ v = NullValue
    /\ result.keyScan.status \in {"none", "ok"}

\* C16: with the null value the call returns a row and no error, also when
\* value columns are requested; the slot of every requested key column that
\* is present in the key tuple is filled and the slot of every requested
\* value column is nil.
C16_NullValueGivesKeyColumnsOnly ==
    NullValueCall =>
        /\ result.status = "ok"
        /\ ~result.row.isNil
        /\ Len(result.row.cols) = conv.rowSize
        /\ \A t \in DOMAIN conv.tagToSqlColIdx :
             LET slot == result.row.cols[conv.tagToSqlColIdx[t] + 1] IN
             /\ (t \in PKTags(conv.cols) /\ t \in TagsIn(k)) => slot # Nil
             /\ t \in NonPKTags(conv.cols) => slot = Nil

\* C16, leaving out key tuples that hold an entry with the largest tag
C16_OutsideLargestKeyTag ==
    (NullValueCall /\ MaxU64 \notin TagsIn(k)) =>
        /\ result.status = "ok"
        /\ \A t \in DOMAIN conv.tagToSqlColIdx :
             LET slot == result.row.cols[conv.tagToSqlColIdx[t] + 1] IN
             /\ (t \in PKTags(conv.cols) /\ t \in TagsIn(k)) => slot # Nil
             /\ t \in NonPKTags(conv.cols) => slot = Nil

(* ------------------- adaptive stage: further claims -------------------- *)
\* C18: with a sample size of 0 or less the replay is never started by
\* handleRow; until the closed input queue starts the final flush every
\* received row is buffered, the formatter is not built and nothing has been
\* passed to it or put on the output or error queue; a final flush that no
\* stop cuts short replays every buffered row.
C18_NonPositiveSamplesUnbounded ==
    numSamples <= 0 =>
        /\ flushFrom # "handleRow"
        /\ flushFrom # "final" =>
             /\ ~rowBuffer.isNil
             /\ BufferedRows = received
             /\ fwtTr = Nil
             /\ processed = << >>
             /\ outHist = << >>
             /\ badHist = << >>
        /\ flushFrom = "final" => (closedInSampling /\ inClosed /\ inChan = << >>)
        /\ (pc = "done" /\ ~stopClosed) => (rowBuffer.isNil /\ processed = received)

\* C18 witness: a stage with sample size 0 buffered three rows or more, the
\* input was closed, and the final flush replayed them all
C18_Witness ==
    /\ numSamples = 0
    /\ pc = "done"
    /\ ~stopClosed
    /\ Len(received) >= 3
    /\ processed = received
    /\ Len(outHist) >= 2

\* the emissions that carry the row with this id
EmittedOut(id) == {n \in DOMAIN outHist : outHist[n].Row.id = id}
EmittedBad(id) == {n \in DOMAIN badHist : badHist[n].Row.id = id}
\* the rows whose processRow call has returned
Finished ==
    {j \in DOMAIN processed : j < Len(processed) \/ pc # "send"}

\* C19: every row whose processRow call has returned was emitted exactly
\* once: on the error queue when the formatter gave an error message, on the
\* output queue with the formatter's row data when it gave none, never on
\* both and never on neither, whatever the formatter returned.
C19_ExactlyOneEmission ==
    \A j \in Finished :
        LET row == processed[j]
            t == Transform(fwtTr, row, NoProps)
        IN  /\ Cardinality(EmittedOut(row.id)) + Cardinality(EmittedBad(row.id)) = 1
            /\ t.errMsg # "" => Cardinality(EmittedBad(row.id)) = 1
            /\ t.errMsg = "" => Cardinality(EmittedOut(row.id)) = 1

\* C19 for the rows the formatter answers with an error or exactly one row
C19_OutsideEmptyResult ==
    \A j \in Finished :
        LET row == processed[j]
            t == Transform(fwtTr, row, NoProps)
        IN  (t.errMsg # "" \/ Len(t.rds) = 1) =>
              /\ Cardinality(EmittedOut(row.id)) + Cardinality(EmittedBad(row.id)) = 1
              /\ t.errMsg # "" => Cardinality(EmittedBad(row.id)) = 1
              /\ t.errMsg = "" =>
                   /\ Cardinality(EmittedOut(row.id)) = 1
                   /\ \A n \in EmittedOut(row.id) :
                        outHist[n] = [Row |-> t.rds[1].RowData, Props |-> NoProps]

\* C20: with a positive sample size N the buffer never holds more than N
\* rows; a discarded buffer means the formatter is built; and no row is
\* passed to a formatter that is not built.
C20_BufferBoundedFormatterBuilt ==
    /\ numSamples > 0 => Len(rowBuffer.rows) <= numSamples
    /\ rowBuffer.isNil => fwtTr # Nil
    /\ processed # << >> => fwtTr # Nil
    /\ pc # "panic"

\* C20 witness: the buffer holds its N = 2 rows, a third row has arrived and
\* started the replay through the formatter built from the two
C20_Witness ==
    /\ numSamples = 2
    /\ Len(rowBuffer.rows) = 2
    /\ Len(received) = 3
    /\ pc = "flush"
    /\ fwtTr # Nil
    /\ processed = << >>

====
